---- MODULE Spec2Model ----
(***************************************************************************)
(* k8s-platform: the Data Service (app/backend/main.py, FastAPI over a     *)
(* psycopg2 connection pool) and the Gateway (app/frontend/app.py, Flask   *)
(* over a requests session with a urllib3 Retry policy).                   *)
(*                                                                         *)
(* Data Service: every handler is a plain `def`, so FastAPI runs each      *)
(* request on a worker thread; the handlers share the module-level         *)
(* connection_pool, a psycopg2.pool.SimpleConnectionPool (the pool class   *)
(* without a lock).  A request blocks, and other requests run, at the two  *)
(* places where it waits for the database: while getconn() opens a new     *)
(* connection, and while the query runs.  These are the steps of the       *)
(* model.                                                                  *)
(*                                                                         *)
(* Gateway: one request makes a chain of attempts against the Data         *)
(* Service, driven by urllib3's Retry(total=3, status_forcelist=...) and   *)
(* by the exception requests raises when the chain ends.  What the Data    *)
(* Service does on an attempt is an input of the model.                    *)
(***************************************************************************)
EXTENDS Integers, FiniteSets, Sequences, TLC

\* --------------------------------------------------------------- bounds
\* Request slots of the Data Service that may be in flight together.
NumRequests == 2
\* Pool sizes (environment-configured, main.py:33-34), scaled down.
DB_MIN_CONN == 1
DB_MAX_CONN == 1

Requests == 1..NumRequests

\* ------------------------------------------------------ request headers
\* The inbound X-Request-ID header: absent, or present with a value.
NoHeader == "<absent>"
Headers == {NoHeader, "rid-a"}

\* request.headers.get("X-Request-ID", "unknown")
RequestId(h) == IF h = NoHeader THEN "unknown" ELSE h

\* ========================================================== Data Service

VARIABLES
    pool,      \* len(connection_pool._pool): idle connections
    used,      \* len(connection_pool._used): checked-out connections
    dpc,       \* each request's position
    dreq,      \* each request's endpoint and inbound header
    conn,      \* get_db_connection's local `conn`: TRUE once getconn returned
    devent,    \* what the pool or the database did to the request
    dresp      \* each request's response, once it is done

bvars == <<pool, used, dpc, dreq, conn, devent, dresp>>

DataEndpoints == {"/ready", "/data", "/footballClub"}
NoReq == [ep |-> "-", hdr |-> NoHeader]
NoResp == [status |-> 0, body |-> "-", xrid |-> "-"]

\* Exceptions, by the classes the handlers tell apart.  psycopg2:
\* OperationalError is a DatabaseError; pool.PoolError is a psycopg2.Error
\* and not a DatabaseError.
NoExc == [type |-> "none", status |-> 0, detail |-> "-"]
Raise(t) == [type |-> t, status |-> 0, detail |-> "-"]
HTTPException(s, d) == [type |-> "HTTPException", status |-> s, detail |-> d]
IsDatabaseError(e) == e.type \in {"OperationalError", "DatabaseError"}

\* What the query on an acquired connection can do.
QueryOutcomes == {"rows", "norows", "OperationalError", "DatabaseError", "Exception"}

\* get_db_connection, lines 102-107: an exception raised by getconn() or
\* thrown in at the yield (the body of the caller's with block) passes its
\* except clause.
get_db_connection_except(e) ==
    IF e.type = "OperationalError"
    THEN HTTPException(503, "Database connection error")
    ELSE e

\* connection_pool.putconn(conn): the connection goes back on the idle list
\* when that holds fewer than minconn and the connection is not closed, and
\* is closed otherwise; either way it leaves _used.
putconn_pool(p, broken) == IF p < DB_MIN_CONN /\ ~broken THEN p + 1 ELSE p

\* get_db_connection, lines 108-110.
get_db_connection_finally(c) == c

\* readiness_check, lines 153-167: the body of the with block.
readiness_body(o) ==
    CASE o = "rows" -> NoExc
      [] o = "norows" -> HTTPException(503, "Database not responding")
      [] OTHER -> Raise(o)

\* readiness_check with its last except clause lost: the failure reaches
\* global_exception_handler and leaves as a 500.
readiness_except_escapes(e) ==
    IF e.type = "HTTPException" THEN e
    ELSE HTTPException(500, "Internal server error")

\* readiness_check, lines 168-175.
readiness_except(e) ==
    IF e.type = "HTTPException" THEN e
    ELSE HTTPException(503, "Service not ready")

\* get_data / get_football_clubs, lines 189-198 and 227-237: fetchall()
\* of an empty table is an empty list, returned like any other.
get_data_body(o) ==
    IF o \in {"rows", "norows"} THEN NoExc ELSE Raise(o)

\* get_data, lines 200-213; get_football_clubs, lines 239-256.
get_data_except(e) ==
    CASE e.type = "HTTPException" -> e
      [] IsDatabaseError(e) -> HTTPException(500, "Database query error")
      [] OTHER -> HTTPException(500, "Internal server error")

HandlerBody(ep, o) == IF ep = "/ready" THEN readiness_body(o) ELSE get_data_body(o)
HandlerExcept(ep, e) == IF ep = "/ready" THEN readiness_except(e) ELSE get_data_except(e)

SuccessBody(ep) ==
    CASE ep = "/ready" -> "ready"
      [] ep = "/data" -> "data"
      [] OTHER -> "clubs"

\* add_request_id, lines 119-127: the response of the handler (a return
\* value, or FastAPI's rendering of an HTTPException as {"detail": ...})
\* with the X-Request-ID header set.
add_request_id(h, status, body) ==
    [status |-> status, body |-> body, xrid |-> RequestId(h)]

\* The response of a handler that ended with `e` (NoExc: it returned).
Respond(r, e) ==
    IF e.type = "none"
    THEN add_request_id(dreq[r].hdr, 200, SuccessBody(dreq[r].ep))
    ELSE add_request_id(dreq[r].hdr, e.status, e.detail)

BackendInit ==
    /\ pool = DB_MIN_CONN
    /\ used = 0
    /\ dpc = [r \in Requests |-> "idle"]
    /\ dreq = [r \in Requests |-> NoReq]
    /\ conn = [r \in Requests |-> FALSE]
    /\ devent = [r \in Requests |-> "-"]
    /\ dresp = [r \in Requests |-> NoResp]

\* health_check probing the database like readiness_check: it takes an idle
\* connection and keeps it checked out.
health_check_probes(r, h) ==
    /\ dpc[r] \in {"idle", "done"}
    /\ pool > 0
    /\ pool' = pool - 1
    /\ used' = used + 1
    /\ dreq' = [dreq EXCEPT ![r] = [ep |-> "/health", hdr |-> h]]
    /\ dresp' = [dresp EXCEPT ![r] = add_request_id(h, 200, "healthy")]
    /\ devent' = [devent EXCEPT ![r] = "-"]
    /\ dpc' = [dpc EXCEPT ![r] = "done"]
    /\ UNCHANGED conn

\* health_check, lines 131-138, under add_request_id.
health_check(r, h) ==
    /\ dpc[r] \in {"idle", "done"}
    /\ dreq' = [dreq EXCEPT ![r] = [ep |-> "/health", hdr |-> h]]
    /\ dresp' = [dresp EXCEPT ![r] = add_request_id(h, 200, "healthy")]
    /\ devent' = [devent EXCEPT ![r] = "-"]
    /\ dpc' = [dpc EXCEPT ![r] = "done"]
    /\ UNCHANGED <<pool, used, conn>>

\* A request for /ready, /data or /footballClub arrives: add_request_id
\* stores the id and the handler runs up to its call of getconn().
Receive(r, ep, h) ==
    /\ dpc[r] \in {"idle", "done"}
    /\ dreq' = [dreq EXCEPT ![r] = [ep |-> ep, hdr |-> h]]
    /\ dresp' = [dresp EXCEPT ![r] = NoResp]
    /\ devent' = [devent EXCEPT ![r] = "-"]
    /\ dpc' = [dpc EXCEPT ![r] = "getconn"]
    /\ UNCHANGED <<pool, used, conn>>

\* The handler ends with exception `e` raised inside get_db_connection's
\* try (NoExc: the with block returned): the except clause, the finally
\* clause, then the handler's own except clauses and the response.
Finish(r, ev, e, broken) ==
    LET held == get_db_connection_finally(conn[r])
        out == IF e.type = "none" THEN NoExc
               ELSE HandlerExcept(dreq[r].ep, get_db_connection_except(e))
    IN  /\ pool' = IF held THEN putconn_pool(pool, broken) ELSE pool
        /\ used' = IF held THEN used - 1 ELSE used
        /\ conn' = [conn EXCEPT ![r] = FALSE]
        /\ dresp' = [dresp EXCEPT ![r] = Respond(r, out)]
        /\ devent' = [devent EXCEPT ![r] = ev]
        /\ dpc' = [dpc EXCEPT ![r] = "done"]
        /\ UNCHANGED dreq

\* SimpleConnectionPool.getconn(), line 94, up to the point where it either
\* returns an idle connection, raises PoolError, or starts to open a new
\* connection.  The test of the used count and the connect that follows
\* are not under a lock.
GetConn(r) ==
    /\ dpc[r] = "getconn"
    /\ \/ /\ pool > 0
          /\ pool' = pool - 1
          /\ used' = used + 1
          /\ conn' = [conn EXCEPT ![r] = TRUE]
          /\ dpc' = [dpc EXCEPT ![r] = "query"]
          /\ UNCHANGED <<dreq, devent, dresp>>
       \/ /\ pool = 0
          /\ used = DB_MAX_CONN
          /\ Finish(r, "exhausted", Raise("PoolError"), FALSE)
       \/ /\ pool = 0
          /\ used # DB_MAX_CONN
          /\ dpc' = [dpc EXCEPT ![r] = "connect"]
          /\ UNCHANGED <<pool, used, conn, dreq, devent, dresp>>

\* getconn() opens the new connection: psycopg2.connect succeeds and the
\* connection is entered in _used, or it raises OperationalError.
Connect(r, ok) ==
    /\ dpc[r] = "connect"
    /\ IF ok
       THEN /\ used' = used + 1
            /\ conn' = [conn EXCEPT ![r] = TRUE]
            /\ dpc' = [dpc EXCEPT ![r] = "query"]
            /\ UNCHANGED <<pool, dreq, devent, dresp>>
       ELSE Finish(r, "connect_failed", Raise("OperationalError"), FALSE)

\* The body of the with block: the query runs with outcome o, and the
\* handler ends.  `broken`: the error left the connection closed.
Query(r, o, broken) ==
    /\ dpc[r] = "query"
    /\ broken => o \in {"OperationalError", "DatabaseError", "Exception"}
    /\ Finish(r, o, HandlerBody(dreq[r].ep, o), broken)

\* =============================================================== Gateway

VARIABLES
    gpc,       \* the request's position
    greq,      \* its endpoint and inbound X-Request-ID header
    call,      \* the call it makes: the Data Service path and the header sent
    total,     \* Retry.total: what is left of the retry budget
    attempts,  \* attempts made against the Data Service
    timeouts,  \* how many of them timed out
    last,      \* what the last attempt met
    gresp      \* the response, once the request is done

fvars == <<gpc, greq, call, total, attempts, timeouts, last, gresp>>

\* The Gateway keeps no state between requests beyond the session's fixed
\* retry policy: one request is followed at a time.
GatewayRequests == {1}

ProxyEndpoints == {"/", "/clubs"}
NoCall == [path |-> "-", xrid |-> NoHeader]

\* Retry(total=3, ...), line 46.
RetryTotal == 3
\* status_forcelist, line 48.
status_forcelist == {429, 500, 502, 503, 504}

\* What one attempt can meet: a response (its status, whether it carries a
\* Retry-After header, whether its body parses as JSON), or no response.
Response(s, ra, js) == [kind |-> "response", status |-> s, retry_after |-> ra, json |-> js]
NoResponse(k) == [kind |-> k, status |-> 0, retry_after |-> FALSE, json |-> FALSE]
NoAttempt == NoResponse("-")
Outcomes ==
    {Response(200, FALSE, TRUE), Response(200, FALSE, FALSE),
     Response(404, FALSE, TRUE),
     Response(413, FALSE, TRUE), Response(413, TRUE, TRUE)}
    \cup {Response(s, FALSE, TRUE) : s \in status_forcelist}
    \cup {NoResponse(k) : k \in {"connect_timeout", "read_timeout", "refused"}}

\* A policy that retries every error status.
is_retry_any_error(status, has_retry_after, tot) == status >= 400

\* urllib3 Retry.is_retry for a GET (an allowed method) under the policy
\* of lines 45-50: the status is in status_forcelist, or budget is left
\* and the response carries Retry-After on a 413, 429 or 503
\* (respect_retry_after_header is left at its default).
is_retry(status, has_retry_after, tot) ==
    \/ status \in status_forcelist
    \/ tot # 0 /\ has_retry_after /\ status \in {413, 429, 503}

\* Whether the attempt's outcome counts against the retry policy: every
\* connect or read error of a GET does, and a response does by is_retry.
Retryable(o, tot) ==
    o.kind # "response" \/ is_retry(o.status, o.retry_after, tot)

\* The exception http_session.get raises when the budget is used up on
\* outcome o (urllib3's MaxRetryError as HTTPAdapter.send translates it by
\* its reason): ResponseError -> RetryError, ConnectTimeoutError ->
\* ConnectTimeout, anything else, a ReadTimeoutError included ->
\* ConnectionError.
session_get_raises(o) ==
    CASE o.kind = "response" -> "RetryError"
      [] o.kind = "connect_timeout" -> "ConnectTimeout"
      [] OTHER -> "ConnectionError"

\* requests' exception classes: ConnectTimeout and ReadTimeout are
\* Timeouts; ConnectTimeout is also a ConnectionError.
IsTimeout(x) == x \in {"ConnectTimeout", "ReadTimeout"}
IsConnectionError(x) == x \in {"ConnectionError", "ConnectTimeout"}

\* Flask's response: jsonify(...) with a status; no handler and no hook of
\* app.py sets a response header.
jsonify(status, body) == [status |-> status, body |-> body, xrid |-> NoHeader]

\* home, lines 123-149; football_clubs, lines 172-198.
proxy_except(x) ==
    CASE IsTimeout(x) -> jsonify(504, "Backend service timeout")
      [] IsConnectionError(x) -> jsonify(503, "Backend service unavailable")
      [] x = "HTTPError" -> jsonify(502, "Backend error")
      [] OTHER -> jsonify(500, "Internal server error")

\* home, lines 112-121; football_clubs, lines 167-170: the response came
\* back; raise_for_status() raises HTTPError on a 4xx or 5xx, and
\* response.json() raises on a body that is not JSON.
proxy_response(ep, o) ==
    CASE o.status >= 400 /\ o.status < 600 -> proxy_except("HTTPError")
      [] ~o.json -> proxy_except("JSONDecodeError")
      [] OTHER -> jsonify(200, IF ep = "/" THEN "frontend+backend" ELSE "clubs")

\* ready accepting every status below 500.
ready_response_lenient(o) ==
    IF o.status < 500
    THEN jsonify(200, "ready")
    ELSE jsonify(503, "not_ready:unhealthy")

\* ready, lines 87-91.
ready_response(o) ==
    IF o.status = 200
    THEN jsonify(200, "ready")
    ELSE jsonify(503, "not_ready:unhealthy")

\* ready, lines 92-94: every exception of the session is a
\* RequestException.
ready_except(x) == jsonify(503, "not_ready:unreachable")

\* The call each endpoint makes: ready, lines 83-86; home, lines 107-111;
\* football_clubs, lines 162-166.
ready_call(h) == [path |-> "/health", xrid |-> NoHeader]
proxy_call(ep, h) ==
    [path |-> IF ep = "/" THEN "/data" ELSE "/footballClub", xrid |-> RequestId(h)]

OnResponse(ep, o) == IF ep = "/ready" THEN ready_response(o) ELSE proxy_response(ep, o)
OnException(ep, x) == IF ep = "/ready" THEN ready_except(x) ELSE proxy_except(x)

FrontendInit ==
    /\ gpc = [g \in GatewayRequests |-> "idle"]
    /\ greq = [g \in GatewayRequests |-> NoReq]
    /\ call = [g \in GatewayRequests |-> NoCall]
    /\ total = [g \in GatewayRequests |-> RetryTotal]
    /\ attempts = [g \in GatewayRequests |-> 0]
    /\ timeouts = [g \in GatewayRequests |-> 0]
    /\ last = [g \in GatewayRequests |-> NoAttempt]
    /\ gresp = [g \in GatewayRequests |-> NoResp]

\* health, lines 67-73.
health(g, h) ==
    /\ gpc[g] \in {"idle", "done"}
    /\ greq' = [greq EXCEPT ![g] = [ep |-> "/health", hdr |-> h]]
    /\ gresp' = [gresp EXCEPT ![g] = jsonify(200, "healthy")]
    /\ gpc' = [gpc EXCEPT ![g] = "done"]
    /\ call' = [call EXCEPT ![g] = NoCall]
    /\ total' = [total EXCEPT ![g] = RetryTotal]
    /\ attempts' = [attempts EXCEPT ![g] = 0]
    /\ timeouts' = [timeouts EXCEPT ![g] = 0]
    /\ last' = [last EXCEPT ![g] = NoAttempt]

\* ready, home or football_clubs starts: http_session.get(...) with a
\* fresh copy of the session's Retry policy.
Start(g, ep, h) ==
    /\ gpc[g] \in {"idle", "done"}
    /\ greq' = [greq EXCEPT ![g] = [ep |-> ep, hdr |-> h]]
    /\ call' = [call EXCEPT ![g] = IF ep = "/ready" THEN ready_call(h) ELSE proxy_call(ep, h)]
    /\ total' = [total EXCEPT ![g] = RetryTotal]
    /\ attempts' = [attempts EXCEPT ![g] = 0]
    /\ timeouts' = [timeouts EXCEPT ![g] = 0]
    /\ last' = [last EXCEPT ![g] = NoAttempt]
    /\ gresp' = [gresp EXCEPT ![g] = NoResp]
    /\ gpc' = [gpc EXCEPT ![g] = "calling"]

\* One attempt of urlopen meets outcome o.  An outcome the policy counts
\* is charged to the budget (Retry.increment): with the budget used up the
\* call raises, otherwise it is attempted again.  Any other response is
\* returned to the handler.
Attempt(g, o) ==
    /\ gpc[g] = "calling"
    /\ attempts' = [attempts EXCEPT ![g] = @ + 1]
    /\ timeouts' = [timeouts EXCEPT ![g] =
                      IF o.kind \in {"connect_timeout", "read_timeout"} THEN @ + 1 ELSE @]
    /\ last' = [last EXCEPT ![g] = o]
    /\ IF Retryable(o, total[g])
       THEN /\ total' = [total EXCEPT ![g] = @ - 1]
            /\ IF total[g] - 1 < 0
               THEN /\ gresp' = [gresp EXCEPT ![g] =
                                   OnException(greq[g].ep, session_get_raises(o))]
                    /\ gpc' = [gpc EXCEPT ![g] = "done"]
               ELSE UNCHANGED <<gresp, gpc>>
       ELSE /\ gresp' = [gresp EXCEPT ![g] = OnResponse(greq[g].ep, o)]
            /\ gpc' = [gpc EXCEPT ![g] = "done"]
            /\ UNCHANGED total
    /\ UNCHANGED <<greq, call>>

\* ============================================================ the system

\* The two services are separate processes that share no state, and what
\* the Data Service answers to the Gateway is an input of the Gateway's
\* model: a behaviour follows one of the two processes.
VARIABLE process

vars == <<pool, used, dpc, dreq, conn, devent, dresp,
          gpc, greq, call, total, attempts, timeouts, last, gresp, process>>

Init ==
    /\ process \in {"backend", "frontend"}
    /\ BackendInit
    /\ FrontendInit

\* A step of the Data Service, and a step of the Gateway.
Backend(A) == process = "backend" /\ A /\ UNCHANGED <<fvars, process>>
Frontend(A) == process = "frontend" /\ A /\ UNCHANGED <<bvars, process>>

Next ==
    \/ \E r \in Requests, h \in Headers : Backend(health_check(r, h))
    \/ \E r \in Requests, ep \in DataEndpoints, h \in Headers : Backend(Receive(r, ep, h))
    \/ \E r \in Requests : Backend(GetConn(r))
    \/ \E r \in Requests, ok \in BOOLEAN : Backend(Connect(r, ok))
    \/ \E r \in Requests, o \in QueryOutcomes, broken \in BOOLEAN :
          Backend(Query(r, o, broken))
    \/ \E g \in GatewayRequests, h \in Headers : Frontend(health(g, h))
    \/ \E g \in GatewayRequests, ep \in ProxyEndpoints \cup {"/ready"}, h \in Headers :
          Frontend(Start(g, ep, h))
    \/ \E g \in GatewayRequests, o \in Outcomes : Frontend(Attempt(g, o))

Spec == Init /\ [][Next]_vars

\* ================================================================ claims

Quiet(r) == dpc[r] \in {"idle", "done"}
Done(r, eps) == dpc[r] = "done" /\ dreq[r].ep \in eps
GDone(g, eps) == gpc[g] = "done" /\ greq[g].ep \in eps

\* C1: every connection a request checks out is returned before the
\* request completes: the checked-out count never exceeds the configured
\* maximum, it counts exactly the requests holding a connection, a request
\* that is not in flight holds none, and with no request in flight it is 0.
C1_ConnectionsBounded ==
    /\ used <= DB_MAX_CONN
    /\ used = Cardinality({r \in Requests : conn[r]})
    /\ \A r \in Requests : Quiet(r) => ~conn[r]
    /\ (\A r \in Requests : Quiet(r)) => used = 0

\* C2: a proxied call (/ or /clubs) whose last answer from the Data Service
\* is a response with an error status (4xx or 5xx) ends in 502 with the
\* bad-gateway body.
C2_ErrorStatusIs502 ==
    \A g \in GatewayRequests :
        (GDone(g, ProxyEndpoints) /\ last[g].kind = "response" /\ last[g].status >= 400)
            => gresp[g].status = 502 /\ gresp[g].body = "Backend error"

\* C3: a proxied call (/ or /clubs) every attempt of which timed out, while
\* connecting or while waiting for the response, ends in 504 with the
\* timeout body.
C3_TimeoutIs504 ==
    \A g \in GatewayRequests :
        (GDone(g, ProxyEndpoints) /\ attempts[g] > 0 /\ timeouts[g] = attempts[g])
            => gresp[g].status = 504 /\ gresp[g].body = "Backend service timeout"

\* C4: a database error of any class (operational errors included) raised
\* by the query of /data or /footballClub yields 500 with the one fixed
\* detail message.
C4_DatabaseErrorIs500 ==
    \A r \in Requests :
        (Done(r, {"/data", "/footballClub"}) /\ devent[r] \in {"OperationalError", "DatabaseError"})
            => dresp[r].status = 500 /\ dresp[r].body = "Database query error"

\* C5: a /data or /footballClub request that finds the pool exhausted is
\* answered, without waiting, with 503.
C5_ExhaustedIs503 ==
    \A r \in Requests :
        (Done(r, {"/data", "/footballClub"}) /\ devent[r] = "exhausted")
            => dresp[r].status = 503

\* A step in which request g is attempted again after a response came back.
ReattemptAfterResponse(g) ==
    /\ gpc[g] = "calling"
    /\ gpc'[g] = "calling"
    /\ attempts'[g] = attempts[g] + 1
    /\ last'[g].kind = "response"

\* C6 as stated: at most 3 attempts per Gateway request, and an attempt
\* after a response only when its status is 429, 500, 502, 503 or 504.
C6_ThreeAttempts ==
    [][\A g \in GatewayRequests :
          /\ attempts'[g] <= 3
          /\ ReattemptAfterResponse(g) => last'[g].status \in status_forcelist]_vars

\* C6 amended: at most 4 attempts per Gateway request (the first and 3
\* retries), and an attempt after a response only when its status is 429,
\* 500, 502, 503 or 504, or it is a 413 carrying a Retry-After header.
C6_FourAttempts ==
    [][\A g \in GatewayRequests :
          /\ attempts'[g] <= RetryTotal + 1
          /\ ReattemptAfterResponse(g) =>
                \/ last'[g].status \in status_forcelist
                \/ last'[g].status = 413 /\ last'[g].retry_after]_vars

C6_Witness ==
    \E g \in GatewayRequests :
        /\ gpc[g] = "done"
        /\ attempts[g] = RetryTotal + 1
        /\ last[g].kind = "response"

\* C7: every response of either service carries the request's correlation
\* identifier (the inbound X-Request-ID, or unknown) in its X-Request-ID
\* header.
C7_RequestIdEchoed ==
    /\ \A r \in Requests : dpc[r] = "done" => dresp[r].xrid = RequestId(dreq[r].hdr)
    /\ \A g \in GatewayRequests : gpc[g] = "done" => gresp[g].xrid = RequestId(greq[g].hdr)

\* C8: the Data Service's /ready answers 200 (ready) exactly when it got a
\* connection and the probe returned a row, and 503 in every other case
\* (pool exhausted, connection not obtained, probe raised, no row).
C8_Readiness ==
    \A r \in Requests :
        Done(r, {"/ready"}) =>
            /\ dresp[r].status \in {200, 503}
            /\ dresp[r].status = 200 <=> devent[r] = "rows"
            /\ dresp[r].status = 200 => dresp[r].body = "ready"

C8_Witness ==
    \E r1, r2 \in Requests :
        /\ Done(r1, {"/ready"}) /\ devent[r1] = "rows" /\ dresp[r1].status = 200
        /\ Done(r2, {"/ready"}) /\ devent[r2] = "exhausted" /\ dresp[r2].status = 503

\* C9: the Gateway's /ready calls only the Data Service's /health, answers
\* 200 exactly when that call ends with a 200 response, and answers 503
\* not_ready in every other case.
C9_GatewayReady ==
    \A g \in GatewayRequests :
        /\ (gpc[g] # "idle" /\ greq[g].ep = "/ready") => call[g].path = "/health"
        /\ GDone(g, {"/ready"}) =>
            /\ gresp[g].status \in {200, 503}
            /\ gresp[g].status = 200 <=> (last[g].kind = "response" /\ last[g].status = 200)
            /\ gresp[g].status = 503 =>
                  gresp[g].body \in {"not_ready:unhealthy", "not_ready:unreachable"}

C9_Witness ==
    \E g \in GatewayRequests :
        /\ GDone(g, {"/ready"})
        /\ attempts[g] = RetryTotal + 1
        /\ last[g].kind = "response"
        /\ gresp[g].status = 503

\* A step that serves /health on slot r of the Data Service, and one that
\* serves it on slot g of the Gateway.
DataHealthStep(r) ==
    /\ dpc'[r] = "done"
    /\ dreq'[r].ep = "/health"
    /\ <<dpc[r], dreq[r], dresp[r]>> # <<dpc'[r], dreq'[r], dresp'[r]>>
GatewayHealthStep(g) ==
    /\ gpc'[g] = "done"
    /\ greq'[g].ep = "/health"
    /\ <<gpc[g], greq[g], gresp[g]>> # <<gpc'[g], greq'[g], gresp'[g]>>

\* C10: /health of either service answers 200 with its static payload
\* whatever the state, and serving it changes nothing: the Data Service's
\* checks out no connection (pool, used and every request's connection are
\* as before, and no other request moves), the Gateway's makes no call to
\* the Data Service.
C10_HealthStatic ==
    [][/\ \A r \in Requests :
             DataHealthStep(r) =>
                /\ dresp'[r].status = 200 /\ dresp'[r].body = "healthy"
                /\ UNCHANGED <<pool, used, conn>>
                /\ \A q \in Requests \ {r} : dpc'[q] = dpc[q] /\ dresp'[q] = dresp[q]
       /\ \A g \in GatewayRequests :
             GatewayHealthStep(g) =>
                /\ gresp'[g].status = 200 /\ gresp'[g].body = "healthy"
                /\ call'[g] = NoCall /\ attempts'[g] = 0]_vars

C10_Witness ==
    \E r \in Requests :
        /\ Done(r, {"/health"}) /\ dresp[r].status = 200
        /\ pool = 0 /\ used >= DB_MAX_CONN
====
